---- MODULE Spec2Model ----
(***************************************************************************)
(* A model of extract-metadata.py: journal-name extraction from a PDF's    *)
(* metadata subject and body text, and the lookup of that name in the      *)
(* journal table (exact, then fuzzy under a similarity threshold).         *)
(*                                                                         *)
(* A Python str is a sequence of one-character strings and None in its     *)
(* place is NoneVal.  A dict or a DataFrame is a record; None in its place *)
(* is NoneRec and an exception raised in its place is Raised.  A float     *)
(* similarity 2.0*M/T is the pair <<2*M, T>> and is compared by cross      *)
(* multiplication, which agrees with the comparison of the two correctly   *)
(* rounded quotients.                                                      *)
(***************************************************************************)
EXTENDS Integers, Sequences, FiniteSets, TLC

VARIABLES
    str1, str2, ratio,            \* calculate_similarity: arguments, result
    subject, subject_ret,         \* extract_journal_from_subject: argument, result
    text, metadata, name_ret,     \* extract_journal_name: arguments, result
    db_file, df, call, ret,       \* load_journal_database / get_impact_factor
    directory, pdf_files, batch_results, pc  \* batch_process_pdfs

vars == <<str1, str2, ratio, subject, subject_ret, text, metadata, name_ret,
          db_file, df, call, ret, directory, pdf_files, batch_results, pc>>

NoneVal == "None"
NoneRec == [py |-> "None"]
Raised == [py |-> "Raised"]

----------------------------------------------------------------------------
(* Characters and the str methods the program uses.                        *)

\* A character is a string of the model: a printable ASCII character stands
\* for itself, "\t" "\n" "\f" "\r" for the control characters of those
\* escapes, and every other character of Latin-1, the grave accent U+0060
\* among them, is written by its code point, as "U+00E9".  The strings of
\* the model are over Latin-1.
UpperSeq == <<"A","B","C","D","E","F","G","H","I","J","K","L","M",
              "N","O","P","Q","R","S","T","U","V","W","X","Y","Z">>
LowerSeq == <<"a","b","c","d","e","f","g","h","i","j","k","l","m",
              "n","o","p","q","r","s","t","u","v","w","x","y","z">>

\* the capitals U+00C0..U+00DE but the sign U+00D7, and what lower() makes
\* of each
Latin1UpperSeq ==
    <<"U+00C0", "U+00C1", "U+00C2", "U+00C3", "U+00C4", "U+00C5", "U+00C6",
      "U+00C7", "U+00C8", "U+00C9", "U+00CA", "U+00CB", "U+00CC", "U+00CD",
      "U+00CE", "U+00CF", "U+00D0", "U+00D1", "U+00D2", "U+00D3", "U+00D4",
      "U+00D5", "U+00D6", "U+00D8", "U+00D9", "U+00DA", "U+00DB", "U+00DC",
      "U+00DD", "U+00DE">>
Latin1LowerSeq ==
    <<"U+00E0", "U+00E1", "U+00E2", "U+00E3", "U+00E4", "U+00E5", "U+00E6",
      "U+00E7", "U+00E8", "U+00E9", "U+00EA", "U+00EB", "U+00EC", "U+00ED",
      "U+00EE", "U+00EF", "U+00F0", "U+00F1", "U+00F2", "U+00F3", "U+00F4",
      "U+00F5", "U+00F6", "U+00F8", "U+00F9", "U+00FA", "U+00FB", "U+00FC",
      "U+00FD", "U+00FE">>

\* [A-Z], [a-z], \d
Upper == {UpperSeq[i] : i \in 1..26}
Lower == {LowerSeq[i] : i \in 1..26}
Digit == {"0","1","2","3","4","5","6","7","8","9"}

Latin1Upper == {Latin1UpperSeq[i] : i \in 1..30}
Latin1Lower == {Latin1LowerSeq[i] : i \in 1..30}
\* the letters of Latin-1 without a capital of their own in it
Latin1Caseless == {"U+00AA", "U+00B5", "U+00BA", "U+00DF", "U+00FF"}
\* superscript digits and fractions: alphanumeric, neither letters nor \d
Latin1Numeric == {"U+00B2", "U+00B3", "U+00B9", "U+00BC", "U+00BD", "U+00BE"}

Letter == Upper \cup Lower \cup Latin1Upper \cup Latin1Lower \cup Latin1Caseless
\* the whitespace of str.strip() and of \s
Space == {" ", "\t", "\n", "\r", "\f", "U+000B", "U+001C", "U+001D", "U+001E",
          "U+001F", "U+0085", "U+00A0"}

\* str.isalpha() of one character
isalpha(c) == c \in Letter
isdigit(c) == c \in Digit
isspace(c) == c \in Space
\* \w of the re module: alphanumerics and the underscore
isword(c) == isalpha(c) \/ isdigit(c) \/ c = "_" \/ c \in Latin1Numeric

LowerOf ==
    [c \in Upper \cup Latin1Upper |->
        IF c \in Upper THEN LowerSeq[CHOOSE i \in 1..26 : UpperSeq[i] = c]
        ELSE Latin1LowerSeq[CHOOSE i \in 1..30 : Latin1UpperSeq[i] = c]]

lower_char(c) == IF c \in Upper \cup Latin1Upper THEN LowerOf[c] ELSE c

\* str.lower()
str_lower(s) == [i \in 1..Len(s) |-> lower_char(s[i])]

\* s[lo:hi] of Python for 1 <= lo, as the characters lo..hi of the sequence
Slice(s, lo, hi) == IF lo > hi THEN <<>> ELSE SubSeq(s, lo, hi)

\* str.strip(): drop the leading and the trailing whitespace
str_strip(s) ==
    LET keep == {i \in 1..Len(s) : ~isspace(s[i])}
    IN  IF keep = {} THEN <<>>
        ELSE LET first == CHOOSE i \in keep : \A j \in keep : i <= j
                 last  == CHOOSE i \in keep : \A j \in keep : j <= i
             IN  SubSeq(s, first, last)

Min(S) == CHOOSE x \in S : \A y \in S : x <= y
Max(S) == CHOOSE x \in S : \A y \in S : y <= x

\* x unless it is NoneVal, and then y: a block that returns x or falls
\* through to the code after it
OrElse(x, y) == IF x # NoneVal THEN x ELSE y

\* sub in s
Contains(s, sub) ==
    \E i \in 1..(Len(s) - Len(sub) + 1) : SubSeq(s, i, i + Len(sub) - 1) = sub

----------------------------------------------------------------------------
(* difflib.SequenceMatcher(None, a, b).ratio(), as calculate_similarity    *)
(* calls it: no junk, and no "popular" elements below 200 characters.      *)

\* __chain_b: the characters of b that autojunk takes out of the index, when
\* b has 200 characters or more: those that occur more than len(b) // 100 + 1
\* times
Occurrences(b, c) == Cardinality({j \in 1..Len(b) : b[j] = c})
bpopular(b) ==
    IF Len(b) < 200 THEN {}
    ELSE {c \in {b[j] : j \in 1..Len(b)} : Occurrences(b, c) > Len(b) \div 100 + 1}

\* the length of the longest block of equal characters, none of them in
\* popular, that starts at a[i] and b[j] and stays inside a[..ahi], b[..bhi]
RECURSIVE run_length(_, _, _, _, _, _, _)
run_length(a, b, popular, i, ahi, j, bhi) ==
    IF i > ahi \/ j > bhi THEN 0
    ELSE IF a[i] # b[j] \/ b[j] \in popular THEN 0
    ELSE 1 + run_length(a, b, popular, i + 1, ahi, j + 1, bhi)

\* the number of equal characters right before a[i] and b[j], inside
\* a[alo..], b[blo..]
RECURSIVE back_length(_, _, _, _, _, _)
back_length(a, b, i, alo, j, blo) ==
    IF i <= alo \/ j <= blo THEN 0
    ELSE IF a[i - 1] # b[j - 1] THEN 0
    ELSE 1 + back_length(a, b, i - 1, alo, j - 1, blo)

\* the two loops that extend the best block by equal characters on each
\* end, the popular ones included: first backwards, then forwards
shift_back(m, back) == <<m[1] - back, m[2] - back, m[3] + back>>

extend_back(a, b, m, alo, blo) ==
    shift_back(m, back_length(a, b, m[1], alo, m[2], blo))

extend_forward(a, b, m, ahi, bhi) ==
    <<m[1], m[2], m[3] + run_length(a, b, {}, m[1] + m[3], ahi, m[2] + m[3], bhi)>>

\* the first loop of find_longest_match: the longest block without popular
\* characters; of those the one starting earliest in a; of those the one
\* starting earliest in b.  <<alo, blo, 0>> if there is none.
longest_block(a, b, popular, alo, ahi, blo, bhi) ==
    IF alo > ahi \/ blo > bhi THEN <<alo, blo, 0>>
    ELSE
    LET size == [p \in (alo..ahi) \X (blo..bhi) |->
                    run_length(a, b, popular, p[1], ahi, p[2], bhi)]
        bestsize == Max({size[p] : p \in DOMAIN size})
        besti == Min({p[1] : p \in {q \in DOMAIN size : size[q] = bestsize}})
        bestj == Min({p[2] : p \in {q \in DOMAIN size : size[q] = bestsize /\ q[1] = besti}})
    IN  IF bestsize = 0 THEN <<alo, blo, 0>> ELSE <<besti, bestj, bestsize>>

\* find_longest_match(alo, ahi, blo, bhi) of SequenceMatcher(None, a, b), with
\* popular = bpopular(b) and the ranges given with both ends:
\* <<besti, bestj, bestsize>>
find_longest_match(a, b, popular, alo, ahi, blo, bhi) ==
    extend_forward(a, b,
        extend_back(a, b, longest_block(a, b, popular, alo, ahi, blo, bhi), alo, blo),
        ahi, bhi)

\* get_matching_blocks: the longest block, then the same to its left and to
\* its right; the value is the total size of the blocks.
RECURSIVE matching_size(_, _, _, _, _, _, _)
matching_size(a, b, popular, alo, ahi, blo, bhi) ==
    IF alo > ahi \/ blo > bhi THEN 0
    ELSE LET m == find_longest_match(a, b, popular, alo, ahi, blo, bhi)
             i == m[1]
             j == m[2]
             k == m[3]
         IN  IF k = 0 THEN 0
             ELSE k + matching_size(a, b, popular, alo, i - 1, blo, j - 1)
                    + matching_size(a, b, popular, i + k, ahi, j + k, bhi)

\* ratio(): 2.0 * matches / (len(a) + len(b)), and 1.0 when both are empty
sm_ratio(a, b) ==
    LET length == Len(a) + Len(b)
    IN  IF length = 0 THEN <<1, 1>>
        ELSE <<2 * matching_size(a, b, bpopular(b), 1, Len(a), 1, Len(b)), length>>

calculate_similarity(s1, s2) == sm_ratio(str_lower(s1), str_lower(s2))

\* comparisons of two similarity values
RatioGeq(x, y) == x[1] * y[2] >= y[1] * x[2]
RatioGt(x, y) == x[1] * y[2] > y[1] * x[2]
RatioEq(x, y) == x[1] * y[2] = y[1] * x[2]

----------------------------------------------------------------------------
(* calculate_similarity applied to pairs of short strings.                 *)

MaxStrLen == 3
SimAlphabet == {"a", "b", "c", "A", "U+00C9"}

RECURSIVE StringsUpTo(_, _)
StringsUpTo(alphabet, n) ==
    IF n = 0 THEN {<<>>}
    ELSE LET shorter == StringsUpTo(alphabet, n - 1)
         IN  shorter \cup {Append(s, c) : s \in shorter, c \in alphabet}

SimStrings == StringsUpTo(SimAlphabet, MaxStrLen)

\* The variables of the operations a specification does not exercise.
IdleSubject == subject = NoneVal /\ subject_ret = NoneVal
IdleSimilarity == str1 = NoneVal /\ str2 = NoneVal /\ ratio = NoneVal
IdleExtract == text = NoneVal /\ metadata = NoneVal /\ name_ret = NoneVal
IdleResolver == db_file = NoneRec /\ df = NoneRec /\ call = NoneRec /\ ret = NoneRec
IdleBatch == directory = NoneVal /\ pdf_files = NoneVal /\ batch_results = NoneVal

InitSimilarity ==
    /\ str1 \in SimStrings
    /\ str2 \in SimStrings
    /\ ratio = NoneVal
    /\ pc = "call"
    /\ IdleSubject /\ IdleExtract /\ IdleResolver /\ IdleBatch

CallSimilarity ==
    /\ pc = "call"
    /\ ratio' = calculate_similarity(str1, str2)
    /\ pc' = "return"
    /\ UNCHANGED <<str1, str2, subject, subject_ret, text, metadata, name_ret,
                   db_file, df, call, ret, directory, pdf_files, batch_results>>

SpecSimilarity == InitSimilarity /\ [][CallSimilarity]_vars

----------------------------------------------------------------------------
(* extract_journal_from_subject: the four rules on the metadata subject.   *)

\* the characters of [\d,.:\-]
isnoise(c) == isdigit(c) \/ c \in {",", ".", ":", "-"}

\* subject.split(',')[0]: the text before the first comma
before_first_comma(s) ==
    Slice(s, 1, Min({i \in 1..Len(s) : s[i] = ","}) - 1)

\* re.sub(r'^[^\w\s]+', '', name): drop the leading run of characters that
\* are neither word characters nor whitespace
strip_prefix_symbols(name) ==
    LET stops == {i \in 1..Len(name) : isword(name[i]) \/ isspace(name[i])}
        first == IF stops = {} THEN Len(name) + 1 ELSE Min(stops)
    IN  Slice(name, first, Len(name))

\* lines 148-155: the value the comma block returns, NoneVal when it falls
\* through to the code after it
\* lines 152-155: the text before the comma, if it looks like a name
accept_name(journal_name) ==
    IF journal_name # <<>> /\ \E i \in 1..Len(journal_name) : isalpha(journal_name[i])
    THEN strip_prefix_symbols(journal_name)
    ELSE NoneVal

comma_rule(s) ==
    IF ~Contains(s, <<",">>) THEN NoneVal
    ELSE accept_name(str_strip(before_first_comma(s)))

\* re.split(r'\s*doi:', s, flags=re.IGNORECASE)[0]: the text before the
\* leftmost match of whitespace followed by doi:
before_doi(s) ==
    LET low == str_lower(s)
        starts == {p \in 1..Len(s) :
                     \E k \in 0..(Len(s) - p) :
                        /\ \A i \in p..(p + k - 1) : isspace(s[i])
                        /\ p + k + 3 <= Len(s)
                        /\ SubSeq(low, p + k, p + k + 3) = <<"d", "o", "i", ":">>}
    IN  IF starts = {} THEN s ELSE Slice(s, 1, Min(starts) - 1)

\* lines 159-162
\* a str that Python takes as true, NoneVal in place of an empty one
NonEmpty(v) == IF v # <<>> THEN v ELSE NoneVal

doi_rule(s) ==
    IF ~Contains(str_lower(s), <<"d", "o", "i", ":">>) THEN NoneVal
    ELSE NonEmpty(str_strip(before_doi(s)))

\* re.search(r'^(.+?)\s+(?:19|20)\d{2}', s): the lengths g of group 1 for
\* which the rest of the pattern matches; the lazy group takes the least
year_groups(s) ==
    {g \in 1..Len(s) :
        /\ \A i \in 1..g : s[i] # "\n"
        /\ \E k \in 1..(Len(s) - g) :
              /\ \A i \in (g + 1)..(g + k) : isspace(s[i])
              /\ g + k + 4 <= Len(s)
              /\ SubSeq(s, g + k + 1, g + k + 2) \in {<<"1", "9">>, <<"2", "0">>}
              /\ isdigit(s[g + k + 3])
              /\ isdigit(s[g + k + 4])}

\* lines 166-168
year_group(s, groups) ==
    IF groups = {} THEN NoneVal ELSE str_strip(SubSeq(s, 1, Min(groups)))

year_rule(s) == year_group(s, year_groups(s))

\* re.sub(r'\s*[\d,.:\-]+\s*$', '', s): the leftmost position from which the
\* rest of s is whitespace, one or more noise characters, whitespace
noise_tail_starts(s) ==
    {p \in 1..Len(s) :
        \E x \in p..Len(s), y \in p..Len(s) :
            /\ x <= y
            /\ \A i \in p..(x - 1) : isspace(s[i])
            /\ \A i \in x..y : isnoise(s[i])
            /\ \A i \in (y + 1)..Len(s) : isspace(s[i])}

cut_from(s, starts) == IF starts = {} THEN s ELSE Slice(s, 1, Min(starts) - 1)

sub_noise_tail(s) == cut_from(s, noise_tail_starts(s))

\* line 172 with >= in place of >
long_enough_from_three(cleaned) ==
    IF cleaned # <<>> /\ Len(cleaned) >= 3 THEN cleaned ELSE NoneVal

\* lines 171-175
long_enough(cleaned) ==
    IF cleaned # <<>> /\ Len(cleaned) > 3 THEN cleaned ELSE NoneVal

strip_rule(s) == long_enough(str_strip(sub_noise_tail(s)))

\* lines 144-175 on the stripped subject: the first block that returns
subject_rules(s) ==
    OrElse(comma_rule(s), OrElse(doi_rule(s), OrElse(year_rule(s), strip_rule(s))))

extract_journal_from_subject(subj) ==
    IF subj = <<>> THEN NoneVal ELSE subject_rules(str_strip(subj))

\* Subjects are built from a few tokens, so that commas, doi: markers, years
\* and trailing numbers occur in every order.
MaxTokens == 4
SubjectTokens ==
    { <<"N", "a", "t">>, <<"U+00C9">>, <<" ">>, <<"\f">>, <<",">>, <<"D", "o", "i", ":">>,
      <<"2", "0", "2", "3">>, <<"1", "2">>, <<"-">>, <<"!">> }

RECURSIVE Concats(_, _)
Concats(tokens, n) ==
    IF n = 0 THEN {<<>>}
    ELSE LET shorter == Concats(tokens, n - 1)
         IN  shorter \cup {s \o t : s \in shorter, t \in tokens}

Subjects == Concats(SubjectTokens, MaxTokens)

InitSubject ==
    /\ subject \in Subjects
    /\ subject_ret = NoneVal
    /\ pc = "call"
    /\ IdleSimilarity /\ IdleExtract /\ IdleResolver /\ IdleBatch

CallExtractFromSubject ==
    /\ pc = "call"
    /\ subject_ret' = extract_journal_from_subject(subject)
    /\ pc' = "return"
    /\ UNCHANGED <<str1, str2, ratio, subject, text, metadata, name_ret,
                   db_file, df, call, ret, directory, pdf_files, batch_results>>

SpecSubject == InitSubject /\ [][CallExtractFromSubject]_vars

----------------------------------------------------------------------------
(* extract_journal_name: the metadata subject, then four patterns searched *)
(* in the first 2000 characters of the text.                               *)

\* the copyright sign, one character of the text
CopyrightSign == "U+00A9"

\* the characters of [A-Za-z\s&\-:]
isnamechar(c) == c \in Upper \/ c \in Lower \/ isspace(c) \/ c \in {"&", "-", ":"}

\* the literal lit stands at position i of t
LitAt(t, i, lit) ==
    /\ i >= 1
    /\ i + Len(lit) - 1 <= Len(t)
    /\ SubSeq(t, i, i + Len(lit) - 1) = lit

\* four digits \d{4} stand at position i
FourDigitsAt(t, i) ==
    /\ i + 3 <= Len(t)
    /\ \A d \in 0..3 : isdigit(t[i + d])

\* an upper-case letter at g followed by m >= 1 name characters: the group
\* ([A-Z][A-Za-z\s&\-:]+) of all four patterns
NameAt(t, g, m) ==
    /\ m >= 1
    /\ g >= 1
    /\ g + m <= Len(t)
    /\ t[g] \in Upper
    /\ \A i \in (g + 1)..(g + m) : isnamechar(t[i])

\* k whitespace characters from position i on
SpacesAt(t, i, k) == i + k - 1 <= Len(t) /\ \A j \in i..(i + k - 1) : isspace(t[j])

S_PublishedIn == <<"P","u","b","l","i","s","h","e","d"," ","i","n">>
S_Vol == <<"V","o","l">>
S_VolDot == <<"V","o","l",".">>
S_Journal == <<"J","o","u","r","n","a","l",":">>

\* (?:\n|,|Vol|\d{4}) at position i
PublishedEndAt(t, i) ==
    \/ LitAt(t, i, <<"\n">>)
    \/ LitAt(t, i, <<",">>)
    \/ LitAt(t, i, S_Vol)
    \/ FourDigitsAt(t, i)

\* r'Published in:?\s*([A-Z][A-Za-z\s&\-:]+?)(?:\n|,|Vol|\d{4})'
\* a match is <<start, colon, spaces, group length>>; the search takes the
\* least start, the greedy :? and \s* take the most, the lazy group the least
published_matches(t) ==
    {w \in {i \in 1..Len(t) : LitAt(t, i, S_PublishedIn)}
              \X (0..1) \X (0..Len(t)) \X (1..Len(t)) :
        /\ w[2] = 1 => LitAt(t, w[1] + 12, <<":">>)
        /\ SpacesAt(t, w[1] + 12 + w[2], w[3])
        /\ NameAt(t, w[1] + 12 + w[2] + w[3], w[4] - 1)
        /\ PublishedEndAt(t, w[1] + 12 + w[2] + w[3] + w[4])}

match_published(t) ==
    LET ms == published_matches(t)
    IN  IF ms = {} THEN NoneVal
        ELSE LET w == CHOOSE w \in ms : \A u \in ms :
                        \/ w[1] < u[1]
                        \/ w[1] = u[1] /\ w[2] > u[2]
                        \/ w[1] = u[1] /\ w[2] = u[2] /\ w[3] > u[3]
                        \/ w[1] = u[1] /\ w[2] = u[2] /\ w[3] = u[3] /\ w[4] <= u[4]
                 g == w[1] + 12 + w[2] + w[3]
             IN  SubSeq(t, g, g + w[4] - 1)

\* \s+Vol\.\s*\d+ at position i
VolumeAt(t, i) ==
    \E k \in 1..Len(t) :
        /\ SpacesAt(t, i, k)
        /\ LitAt(t, i + k, S_VolDot)
        /\ \E j \in 0..Len(t) :
              /\ SpacesAt(t, i + k + 4, j)
              /\ i + k + 4 + j <= Len(t)
              /\ isdigit(t[i + k + 4 + j])

\* r'([A-Z][A-Za-z\s&\-:]+?)\s+Vol\.\s*\d+': <<start, group length>>
volume_matches(t) ==
    {w \in {i \in 1..Len(t) : t[i] \in Upper} \X (1..Len(t)) :
        /\ NameAt(t, w[1], w[2] - 1)
        /\ VolumeAt(t, w[1] + w[2])}

match_volume(t) ==
    LET ms == volume_matches(t)
    IN  IF ms = {} THEN NoneVal
        ELSE LET w == CHOOSE w \in ms : \A u \in ms :
                        \/ w[1] < u[1]
                        \/ w[1] = u[1] /\ w[2] <= u[2]
             IN  SubSeq(t, w[1], w[1] + w[2] - 1)

\* r'Journal:\s*([A-Z][A-Za-z\s&\-:]+)': <<start, spaces, group length>>, the
\* group greedy
journal_matches(t) ==
    {w \in {i \in 1..Len(t) : LitAt(t, i, S_Journal)} \X (0..Len(t)) \X (1..Len(t)) :
        /\ SpacesAt(t, w[1] + 8, w[2])
        /\ NameAt(t, w[1] + 8 + w[2], w[3] - 1)}

match_journal(t) ==
    LET ms == journal_matches(t)
    IN  IF ms = {} THEN NoneVal
        ELSE LET w == CHOOSE w \in ms : \A u \in ms :
                        \/ w[1] < u[1]
                        \/ w[1] = u[1] /\ w[2] > u[2]
                        \/ w[1] = u[1] /\ w[2] = u[2] /\ w[3] >= u[3]
                 g == w[1] + 8 + w[2]
             IN  SubSeq(t, g, g + w[3] - 1)

\* \b before the word character at g: no word character stands before it
WordStartAt(t, g) == g = 1 \/ ~isword(t[g - 1])

\* r'U+00A9.*?(\b[A-Z][A-Za-z\s&\-:]+?)\s+\d{4}', U+00A9 the copyright sign:
\* <<start, skipped, group length>>, the skip .*? and the group both lazy
copyright_matches(t) ==
    {w \in {i \in 1..Len(t) : t[i] = CopyrightSign} \X (0..Len(t)) \X (1..Len(t)) :
        /\ w[1] + w[2] <= Len(t)
        /\ \A i \in (w[1] + 1)..(w[1] + w[2]) : t[i] # "\n"
        /\ WordStartAt(t, w[1] + 1 + w[2])
        /\ NameAt(t, w[1] + 1 + w[2], w[3] - 1)
        /\ \E k \in 1..Len(t) :
              /\ SpacesAt(t, w[1] + 1 + w[2] + w[3], k)
              /\ FourDigitsAt(t, w[1] + 1 + w[2] + w[3] + k)}

match_copyright(t) ==
    LET ms == copyright_matches(t)
    IN  IF ms = {} THEN NoneVal
        ELSE LET w == CHOOSE w \in ms : \A u \in ms :
                        \/ w[1] < u[1]
                        \/ w[1] = u[1] /\ w[2] < u[2]
                        \/ w[1] = u[1] /\ w[2] = u[2] /\ w[3] <= u[3]
                 g == w[1] + 1 + w[2]
             IN  SubSeq(t, g, g + w[3] - 1)

TextWindow == 2000

\* lines 195-207: the first pattern that matches text[:2000] gives the name
\* match.group(1).strip() of the first pattern that matches t
first_match(t) ==
    OrElse(match_published(t),
        OrElse(match_volume(t), OrElse(match_journal(t), match_copyright(t))))

strip_match(group) == IF group = NoneVal THEN NoneVal ELSE str_strip(group)

match_patterns(txt) ==
    strip_match(first_match(
        Slice(txt, 1, IF Len(txt) < TextWindow THEN Len(txt) ELSE TextWindow)))

\* metadata.get('/Subject'): the value, NoneVal when the key is absent
SubjectKey == "/Subject"
metadata_get(md, key) == IF key \in DOMAIN md THEN md[key] ELSE NoneVal

\* a str or None that Python takes as true
Truthy(v) == v # NoneVal /\ v # <<>>

\* lines 189-192: the name the subject gives, NoneVal when the block falls
\* through to the patterns
TruthyOrNone(v) == IF Truthy(v) THEN v ELSE NoneVal

name_from_metadata(md) ==
    IF Truthy(metadata_get(md, SubjectKey))
    THEN TruthyOrNone(extract_journal_from_subject(md[SubjectKey]))
    ELSE NoneVal

\* the patterns tried before the subject
extract_journal_name_text_first(txt, md) ==
    OrElse(match_patterns(txt), name_from_metadata(md))

extract_journal_name(txt, md) == OrElse(name_from_metadata(md), match_patterns(txt))

\* Texts are built from a few tokens that the four patterns react to.
MaxTextTokens == 3
TextTokens ==
    { S_Journal, <<"C", "e", "l", "l">>, <<" ", "V", "o", "l", ".", " ", "1", "2">>, <<"P", "u", "b", "l", "i", "s", "h", "e", "d", " ", "i", "n", ":", " ">>, <<"\f", "2", "0", "2", "1">>, <<CopyrightSign>> }

Texts == Concats(TextTokens, MaxTextTokens)

\* Metadata: no subject, an empty one, one that yields no name, another
\* field only, and two subjects that yield a name.
Metadatas ==
    { <<>>,
      SubjectKey :> <<>>,
      SubjectKey :> <<"1", "2">>,
      "/Title" :> <<"C", "e", "l", "l">>,
      SubjectKey :> <<"N", "a", "t", ",", " ", "1", "2">>,
      SubjectKey :> <<"N", "a", "t", "x", " ", "2", "0", "2", "3">> }

InitExtract ==
    /\ text \in Texts
    /\ metadata \in Metadatas
    /\ name_ret = NoneVal
    /\ pc = "call"
    /\ IdleSimilarity /\ IdleSubject /\ IdleResolver /\ IdleBatch

CallExtractJournalName ==
    /\ pc = "call"
    /\ name_ret' = extract_journal_name(text, metadata)
    /\ pc' = "return"
    /\ UNCHANGED <<str1, str2, ratio, subject, subject_ret, text, metadata,
                   db_file, df, call, ret, directory, pdf_files, batch_results>>

SpecExtract == InitExtract /\ [][CallExtractJournalName]_vars

----------------------------------------------------------------------------
(* The journal table and get_impact_factor.                                *)
(* A DataFrame is a record of columns, each a sequence with one value per  *)
(* row.  An impact factor is an opaque value of the sheet.                 *)

\* A sheet is a record: whether it can be read, and its rows, each a pair
\* of the columns 'Journal Name' and 'JIF'.  Unreadable cannot be read.
Unreadable == [readable |-> FALSE, rows |-> <<>>]

\* load_journal_database: the two columns of the sheet, renamed, and the
\* lower-cased, stripped names; Raised when read_excel raises
load_journal_database(file) ==
    IF ~file.readable THEN Raised
    ELSE [journal_name       |-> [i \in 1..Len(file.rows) |-> file.rows[i][1]],
          impact_factor      |-> [i \in 1..Len(file.rows) |-> file.rows[i][2]],
          journal_name_lower |-> [i \in 1..Len(file.rows) |->
                                     str_strip(str_lower(file.rows[i][1]))]]

NumRows(d) == Len(d.journal_name)

\* df['similarity'] = ...: the frame with that column set
with_similarity(d, column) ==
    [c \in DOMAIN d \cup {"similarity"} |-> IF c = "similarity" THEN column ELSE d[c]]

\* Series.idxmax(): the first row that holds the greatest value
idxmax(column) ==
    Min({i \in 1..Len(column) : \A j \in 1..Len(column) : RatioGeq(column[i], column[j])})

\* round(x, 3) of the numpy.float64 that the row holds for x = 2.0 * p / q:
\* rint(x * 1000) / 1000, as a number of thousandths out of 1000.  Float
\* arithmetic decides only when 1000 * p / q lies halfway between two
\* integers; everywhere else the nearer integer is the answer.

\* the least s with p * 2^s >= q: x is in [2^-s, 2^(1-s))
RECURSIVE binade(_, _)
binade(p, q) == IF p >= q THEN 0 ELSE 1 + binade(2 * p, q)

RECURSIVE Pow2(_)
Pow2(n) == IF n = 0 THEN 1 ELSE 2 * Pow2(n - 1)

\* floor(log2(k + 0.5))
RECURSIVE ilog2(_)
ilog2(k) == IF k = 0 THEN 0 - 1 ELSE IF k = 1 THEN 0 ELSE 1 + ilog2(k \div 2)

\* r * 2^n mod q
RECURSIVE shifted(_, _, _)
shifted(r, q, n) == IF n = 0 THEN r ELSE shifted((2 * r) % q, q, n - 1)

\* what the division p / q leaves beyond the 53 bits of the double, in q-ths
\* of a unit in the last place
division_rest(p, q, s) == shifted(Pow2(s) * p - q, q, 52)

\* rint(x * 1000) when 1000 * p / q = k + 1/2: the error of the division,
\* times 1000, moves the product off k + 1/2 when it exceeds half a unit in
\* the last place of k + 1/2, d binades above x; otherwise the tie goes to
\* the even integer
rint_tie(k, q, rest, d) ==
    IF 2 * rest > q /\ 2000 * (q - rest) > Pow2(d) * q THEN k + 1
    ELSE IF 2 * rest < q /\ 2000 * rest > Pow2(d) * q THEN k
    ELSE IF k % 2 = 0 THEN k ELSE k + 1

rint1000(p, q, k, rem) ==
    IF 2 * rem > q THEN k + 1
    ELSE IF 2 * rem < q THEN k
    ELSE rint_tie(k, q, division_rest(p, q, binade(p, q)), ilog2(k) + binade(p, q))

round3(x) ==
    <<rint1000(x[1], x[2], (1000 * x[1]) \div x[2], (1000 * x[1]) % x[2]), 1000>>

\* line 79 with > in place of >=
best_match_strict(scored, best, threshold) ==
    IF RatioGt(scored.similarity[best], threshold)
    THEN [ret |-> [journal_name  |-> scored.journal_name[best],
                   impact_factor |-> scored.impact_factor[best],
                   match_type    |-> "fuzzy",
                   similarity    |-> round3(scored.similarity[best])],
          df  |-> scored]
    ELSE [ret |-> NoneRec, df |-> scored]

\* lines 77-87: the best row of the scored frame against the threshold;
\* idxmax raises on a frame without rows
best_match(scored, best, threshold) ==
    IF RatioGeq(scored.similarity[best], threshold)
    THEN [ret |-> [journal_name  |-> scored.journal_name[best],
                   impact_factor |-> scored.impact_factor[best],
                   match_type    |-> "fuzzy",
                   similarity    |-> round3(scored.similarity[best])],
          df  |-> scored]
    ELSE [ret |-> NoneRec, df |-> scored]

fuzzy_match(scored, threshold) ==
    IF NumRows(scored) = 0
    THEN [ret |-> Raised, df |-> scored]
    ELSE best_match(scored, idxmax(scored.similarity), threshold)

\* lines 63-70: the first row whose lower-cased name is the candidate
exact_rows(d, journal_name_clean) ==
    {i \in 1..NumRows(d) : d.journal_name_lower[i] = journal_name_clean}

exact_result(d, row) ==
    [ret |-> [journal_name  |-> d.journal_name[row],
              impact_factor |-> d.impact_factor[row],
              match_type    |-> "exact"],
     df  |-> d]

lookup(journal_name_clean, d, exact_match, threshold) ==
    IF exact_match # {}
    THEN exact_result(d, Min(exact_match))
    ELSE fuzzy_match(
            with_similarity(d,
                [i \in 1..NumRows(d) |->
                    calculate_similarity(d.journal_name_lower[i], journal_name_clean)]),
            threshold)

\* line 60 without the strip
clean_name_unstripped(journal_name) == str_lower(journal_name)

\* line 60
clean_name(journal_name) == str_strip(str_lower(journal_name))

\* get_impact_factor: the value returned (a dict, NoneRec, or Raised) and
\* the frame as the call leaves it
get_impact_factor(journal_name, d, threshold) ==
    lookup(clean_name(journal_name), d, exact_rows(d, clean_name(journal_name)), threshold)

\* threshold: float = 0.85
DefaultThreshold == <<17, 20>>

\* The rows a sheet is made of: two spellings of one journal, a near
\* duplicate of it, and another journal.
MaxRows == 2
JournalRows ==
    { <<<<"N", "a", "t", "u", "r", "e">>, "69.5">>, <<<<" ", "N", "A", "T", "U", "R", "E">>, "1.0">>, <<<<"N", "a", "t", "u", "r", "a">>, "2.0">>, <<<<"C", "e", "l", "l">>, "45.5">> }

RECURSIVE SeqsUpTo(_, _)
SeqsUpTo(S, n) ==
    IF n = 0 THEN {<<>>}
    ELSE LET shorter == SeqsUpTo(S, n - 1)
         IN  shorter \cup {Append(q, x) : q \in shorter, x \in S}

Sheets == {[readable |-> TRUE, rows |-> r] : r \in SeqsUpTo(JournalRows, MaxRows)}

Candidates == { <<"n", "a", "t", "u", "r", "e", " ">>, <<"N", "a", "t", "u", "r">>, <<"C", "e", "l">>, <<"X", "y", "z">> }
Thresholds == { DefaultThreshold, <<10, 11>>, <<1, 1>> }

InitResolver ==
    /\ db_file \in Sheets
    /\ df = NoneRec
    /\ call = NoneRec
    /\ ret = NoneRec
    /\ pc = "load"
    /\ IdleSimilarity /\ IdleSubject /\ IdleExtract /\ IdleBatch

LoadDatabase ==
    /\ pc = "load"
    /\ df' = load_journal_database(db_file)
    /\ pc' = "ready"
    /\ UNCHANGED <<str1, str2, ratio, subject, subject_ret, text, metadata, name_ret,
                   db_file, call, ret, directory, pdf_files, batch_results>>

\* one call of get_impact_factor on the loaded frame; a raised exception
\* ends the run
CallGetImpactFactor ==
    /\ pc = "ready"
    /\ \E journal_name \in Candidates, threshold \in Thresholds :
          \E out \in {get_impact_factor(journal_name, df, threshold)} :
              /\ call' = [journal_name |-> journal_name, threshold |-> threshold]
              /\ ret' = out.ret
              /\ df' = out.df
              /\ pc' = IF out.ret = Raised THEN "raised" ELSE "ready"
    /\ UNCHANGED <<str1, str2, ratio, subject, subject_ret, text, metadata, name_ret,
                   db_file, directory, pdf_files, batch_results>>

NextResolver == LoadDatabase \/ CallGetImpactFactor

SpecResolver == InitResolver /\ [][NextResolver]_vars

----------------------------------------------------------------------------
(* process_pdf: read the PDF, extract the name, look it up.                *)
(* A PDF is a record: whether it can be opened, the text of its pages, and *)
(* its document information.                                               *)

MaxPages == 2
PreviewLen == 500

RECURSIVE concat_pages(_, _)
concat_pages(pages, n) ==
    IF n = 0 THEN <<>> ELSE concat_pages(pages, n - 1) \o pages[n]

\* extract_text_from_pdf: the text of the first max_pages pages
extract_text_from_pdf(pdf) ==
    concat_pages(pdf.pages, IF Len(pdf.pages) < MaxPages THEN Len(pdf.pages) ELSE MaxPages)

\* extract_metadata: the fields whose value is not empty
extract_metadata(pdf) ==
    [k \in {f \in DOMAIN pdf.info : pdf.info[f] # <<>>} |-> pdf.info[k]]

MsgLoadFailed == "load of the journal database failed"
MsgReadFailed == "reading the PDF failed"
MsgNoJournalName == "the journal name was not recognised"
MsgNoMatch == "no matching journal was found"

\* lines 254-268: the dict for what the lookup gave
lookup_result(journal_name, looked) ==
    IF looked.ret = Raised
    THEN [ret |-> Raised, df |-> looked.df]
    ELSE IF looked.ret = NoneRec
    THEN [ret |-> [status |-> "not_found",
                   message |-> MsgNoMatch,
                   extracted_journal_name |-> journal_name],
          df  |-> looked.df]
    ELSE [ret |-> [status |-> "success",
                   extracted_journal_name |-> journal_name,
                   matched_journal_name |-> looked.ret.journal_name,
                   impact_factor |-> looked.ret.impact_factor,
                   match_type |-> looked.ret.match_type,
                   similarity |-> IF "similarity" \in DOMAIN looked.ret
                                  THEN looked.ret.similarity ELSE NoneVal],
          df  |-> looked.df]

\* lines 244-249 reporting the missing name as 'not_found'
name_result_not_found(txt, journal_name, journal_df) ==
    IF ~Truthy(journal_name)
    THEN [ret |-> [status |-> "not_found",
                   message |-> MsgNoJournalName,
                   extracted_text_preview |->
                       Slice(txt, 1, IF Len(txt) < PreviewLen THEN Len(txt) ELSE PreviewLen)],
          df  |-> journal_df]
    ELSE lookup_result(journal_name,
                       get_impact_factor(journal_name, journal_df, DefaultThreshold))

\* lines 244-252: no name is an error that carries the start of the text
name_result(txt, journal_name, journal_df) ==
    IF ~Truthy(journal_name)
    THEN [ret |-> [status |-> "error",
                   message |-> MsgNoJournalName,
                   extracted_text_preview |->
                       Slice(txt, 1, IF Len(txt) < PreviewLen THEN Len(txt) ELSE PreviewLen)],
          df  |-> journal_df]
    ELSE lookup_result(journal_name,
                       get_impact_factor(journal_name, journal_df, DefaultThreshold))

\* lines 241-268, the PDF read and the table at hand: the dict returned (or
\* Raised) and the table as the lookup leaves it
process_text(txt, md, journal_df) ==
    name_result(txt, extract_journal_name(txt, md), journal_df)

\* lines 231-268 with the table at hand
process_with(pdf, table) ==
    IF ~pdf.readable
    THEN [ret |-> [status |-> "error", message |-> MsgReadFailed], df |-> table]
    ELSE process_text(extract_text_from_pdf(pdf), extract_metadata(pdf), table)

\* lines 222-229: the table loaded for this call alone
process_loading(pdf, table) ==
    IF table = Raised
    THEN [ret |-> [status |-> "error", message |-> MsgLoadFailed], df |-> NoneRec]
    ELSE [ret |-> process_with(pdf, table).ret, df |-> NoneRec]

\* process_pdf(pdf_path, journal_df) with the database file at file: the
\* dict returned (or Raised) and the caller's table after the call
process_pdf(pdf, journal_df, file) ==
    IF journal_df = NoneRec
    THEN process_loading(pdf, load_journal_database(file))
    ELSE process_with(pdf, journal_df)

\* The PDFs: one that cannot be opened; a subject naming a journal of the
\* table; a name only in the text; no name in the first two pages; a
\* misspelt name; a name the table does not hold.
Pdfs ==
    { [readable |-> FALSE, pages |-> <<>>, info |-> <<>>],
      [readable |-> TRUE, pages |-> <<<<"x">>>>, info |-> (SubjectKey :> <<"N", "a", "t", "u", "r", "e", ",", " ", "2", "0", "2", "3">>)],
      [readable |-> TRUE, pages |-> <<<<"J", "o", "u", "r", "n", "a", "l", ":", " ", "C", "e", "l", "l">>>>, info |-> <<>>],
      [readable |-> TRUE, pages |-> <<<<"h", "e", "l", "l", "o">>, <<>>, <<"J", "o", "u", "r", "n", "a", "l", ":", " ", "C", "e", "l", "l">>>>,
                          info |-> (SubjectKey :> <<>>)],
      [readable |-> TRUE, pages |-> <<>>, info |-> (SubjectKey :> <<"N", "a", "t", "u", "r", " ", "2", "0", "2", "3">>)],
      [readable |-> TRUE, pages |-> <<<<"x">>>>, info |-> (SubjectKey :> <<"X", "y", "z", ",", " ", "1">>)] }

InitProcess ==
    /\ call \in [pdf_path : Pdfs]
    /\ \/ df = NoneRec /\ db_file \in Sheets \cup {Unreadable}
       \/ df \in {load_journal_database(f) : f \in Sheets} /\ db_file = NoneRec
    /\ ret = NoneRec
    /\ pc = "call"
    /\ IdleSimilarity /\ IdleSubject /\ IdleExtract /\ IdleBatch

CallProcessPdf ==
    /\ pc = "call"
    /\ \E out \in {process_pdf(call.pdf_path, df, db_file)} :
          /\ ret' = out.ret
          /\ df' = out.df
          /\ pc' = IF out.ret = Raised THEN "raised" ELSE "return"
    /\ UNCHANGED <<str1, str2, ratio, subject, subject_ret, text, metadata, name_ret,
                   db_file, call, directory, pdf_files, batch_results>>

SpecProcess == InitProcess /\ [][CallProcessPdf]_vars

----------------------------------------------------------------------------
(* batch_process_pdfs.  A path is a number, its rank in the order of       *)
(* paths; a directory is a record: whether it exists, and the PDF behind   *)
(* each path in it.                                                        *)

MaxFiles == 2

RECURSIVE sorted(_)
sorted(S) == IF S = {} THEN <<>> ELSE <<Min(S)>> \o sorted(S \ {Min(S)})

\* find_all_pdfs of a directory that exists: the paths in order
find_all_pdfs(dir) == sorted(DOMAIN dir.files)

\* pdf_file.name
file_name(path) == <<"pdf", path>>

\* batch_result['file_path'] = ...; batch_result['file_name'] = ...
with_file(result, path) ==
    [k \in DOMAIN result \cup {"file_path", "file_name"} |->
        IF k = "file_path" THEN path
        ELSE IF k = "file_name" THEN file_name(path)
        ELSE result[k]]

BatchSheets ==
    {[readable |-> TRUE, rows |-> r] : r \in
    { <<>>,
      << <<<<"N", "a", "t", "u", "r", "e">>, "69.5">> >>,
      << <<<<"N", "a", "t", "u", "r", "a">>, "2.0">>, <<<<"C", "e", "l", "l">>, "45.5">> >> } }

Directories ==
    {[exists |-> FALSE, files |-> <<>>]} \cup
    {[exists |-> TRUE, files |-> f] : f \in UNION {[P -> Pdfs] : P \in SUBSET (1..MaxFiles)}}

InitBatch ==
    /\ directory \in Directories
    /\ \/ df = NoneRec /\ db_file \in BatchSheets \cup {Unreadable}
       \/ df \in {load_journal_database(f) : f \in BatchSheets} /\ db_file = NoneRec
    /\ pdf_files = NoneVal
    /\ batch_results = NoneVal
    /\ ret = NoneRec
    /\ call = NoneRec
    /\ pc = "start"
    /\ IdleSimilarity /\ IdleSubject /\ IdleExtract

\* lines 309-322: list the files, stop when there are none, load the table
\* when none was passed
BatchStart ==
    /\ pc = "start"
    /\ IF ~directory.exists
       THEN /\ pc' = "raised"
            /\ UNCHANGED <<pdf_files, batch_results, df, ret>>
       ELSE \E found \in {find_all_pdfs(directory)} :
            /\ pdf_files' = found
            /\ IF Len(found) = 0
               THEN /\ ret' = <<>>
                    /\ pc' = "done"
                    /\ UNCHANGED <<batch_results, df>>
               ELSE \E journal_df \in {IF df = NoneRec THEN load_journal_database(db_file)
                                       ELSE df} :
                    IF journal_df = Raised
                    THEN /\ pc' = "raised"
                         /\ UNCHANGED <<batch_results, df, ret>>
                    ELSE /\ df' = journal_df
                         /\ batch_results' = <<>>
                         /\ pc' = "loop"
                         /\ UNCHANGED ret
    /\ UNCHANGED <<str1, str2, ratio, subject, subject_ret, text, metadata, name_ret,
                   db_file, call, directory>>

\* lines 324-340: one turn of the loop
BatchStep ==
    /\ pc = "loop"
    /\ Len(batch_results) < Len(pdf_files)
    /\ \E pdf_file \in {pdf_files[Len(batch_results) + 1]} :
       \E out \in {process_pdf(directory.files[pdf_file], df, db_file)} :
          /\ df' = out.df
          /\ IF out.ret = Raised
             THEN pc' = "raised" /\ UNCHANGED batch_results
             ELSE /\ batch_results' = Append(batch_results, with_file(out.ret, pdf_file))
                  /\ pc' = "loop"
    /\ UNCHANGED <<str1, str2, ratio, subject, subject_ret, text, metadata, name_ret,
                   db_file, call, ret, directory, pdf_files>>

\* line 342
BatchReturn ==
    /\ pc = "loop"
    /\ Len(batch_results) = Len(pdf_files)
    /\ ret' = batch_results
    /\ pc' = "done"
    /\ UNCHANGED <<str1, str2, ratio, subject, subject_ret, text, metadata, name_ret,
                   db_file, df, call, directory, pdf_files, batch_results>>

NextBatch == BatchStart \/ BatchStep \/ BatchReturn

SpecBatch == InitBatch /\ [][NextBatch]_vars

----------------------------------------------------------------------------
(* Properties.                                                             *)

\* The PDF of a path of the directory.
PdfAt(path) == directory.files[path]

\* C1: when reading a document of the batch raises, that document is
\* recorded with status 'error', every document after it is still processed
\* and recorded with the outcome it has alone, and the list returned holds
\* one record per discovered document, in discovery order.
BatchIsolation ==
    ( /\ pc \in {"done", "raised"}
      /\ directory.exists
      /\ df # NoneRec
      /\ \E path \in DOMAIN directory.files : ~PdfAt(path).readable )
    => /\ pc = "done"
       /\ Len(ret) = Len(pdf_files)
       /\ \A j \in 1..Len(pdf_files) :
             /\ ret[j].file_path = pdf_files[j]
             /\ ~PdfAt(pdf_files[j]).readable => ret[j].status = "error"
             /\ ret[j] = with_file(process_pdf(PdfAt(pdf_files[j]), df, db_file).ret,
                                   pdf_files[j])

\* The call of process_pdf: whether the PDF and the table can be read, the
\* name extracted, and what the lookup of that name gives.
ReadOk == call.pdf_path.readable /\ (df # NoneRec \/ db_file.readable)
TableAtHand == IF df # NoneRec THEN df ELSE load_journal_database(db_file)
NameOfCall ==
    extract_journal_name(extract_text_from_pdf(call.pdf_path),
                         extract_metadata(call.pdf_path))
LookupOfCall == get_impact_factor(NameOfCall, TableAtHand, DefaultThreshold).ret

\* C2 as stated: a document read successfully yields NotFound when no name
\* is extracted, NotFound carrying the name when the lookup returns none,
\* Success when it returns a match; Error only when reading or loading raises.
OutcomeAsStated ==
    pc = "return" =>
       /\ ret.status = "error" => ~ReadOk
       /\ ReadOk /\ ~Truthy(NameOfCall) => ret.status = "not_found"
       /\ ReadOk /\ Truthy(NameOfCall) /\ LookupOfCall = NoneRec =>
             /\ ret.status = "not_found"
             /\ ret.extracted_journal_name = NameOfCall
       /\ ReadOk /\ Truthy(NameOfCall) /\ LookupOfCall \notin {NoneRec, Raised} =>
             ret.status = "success"

\* C2, amended: a document read successfully yields status 'error' with the
\* start of the text when no name is extracted, 'not_found' carrying the name
\* when the lookup returns none, 'success' when it returns a match, and no
\* outcome at all when the lookup raises; 'error' is produced only when
\* reading raises, loading raises, or no name is extracted.
ProcessOutcome ==
    pc \in {"return", "raised"} =>
       IF ~ReadOk
       THEN pc = "return" /\ ret.status = "error"
            /\ ret.message \in {MsgLoadFailed, MsgReadFailed}
       ELSE IF ~Truthy(NameOfCall)
       THEN /\ pc = "return"
            /\ ret = [status |-> "error", message |-> MsgNoJournalName,
                      extracted_text_preview |->
                          Slice(extract_text_from_pdf(call.pdf_path), 1,
                                IF Len(extract_text_from_pdf(call.pdf_path)) < PreviewLen
                                THEN Len(extract_text_from_pdf(call.pdf_path))
                                ELSE PreviewLen)]
       ELSE IF LookupOfCall = Raised
       THEN pc = "raised"
       ELSE IF LookupOfCall = NoneRec
       THEN /\ pc = "return"
            /\ ret.status = "not_found"
            /\ ret.extracted_journal_name = NameOfCall
       ELSE /\ pc = "return"
            /\ ret.status = "success"
            /\ ret.extracted_journal_name = NameOfCall
            /\ ret.matched_journal_name = LookupOfCall.journal_name
            /\ ret.impact_factor = LookupOfCall.impact_factor

\* C2: a PDF that was read, whose text gives no name, is reported as an error
\* that carries the text read.
NoNameIsError ==
    /\ pc = "return"
    /\ ReadOk
    /\ ~Truthy(NameOfCall)
    /\ ret.status = "error"
    /\ ret.extracted_text_preview = <<"h", "e", "l", "l", "o">>

\* The call of get_impact_factor against the sheet the table was loaded
\* from: the normalized candidate, the normalized name of a row, the rows
\* that match exactly, the similarity of each row.
Called == pc \in {"ready", "raised"} /\ call # NoneRec
CandidateClean == str_strip(str_lower(call.journal_name))
RowClean(i) == str_strip(str_lower(db_file.rows[i][1]))
ExactRows == {i \in 1..Len(db_file.rows) : RowClean(i) = CandidateClean}
RowSimilarity(i) == calculate_similarity(RowClean(i), CandidateClean)
BestRows ==
    {i \in 1..Len(db_file.rows) :
        \A j \in 1..Len(db_file.rows) : RatioGeq(RowSimilarity(i), RowSimilarity(j))}

\* C3: when a row's normalized name equals the normalized candidate, the
\* result is the display name and impact factor of the first such row, with
\* match_type 'exact' and no similarity field.
ExactMatchFirst ==
    Called /\ ExactRows # {} =>
        ret = [journal_name  |-> db_file.rows[Min(ExactRows)][1],
               impact_factor |-> db_file.rows[Min(ExactRows)][2],
               match_type    |-> "exact"]

\* C3: 'nature ' against a sheet whose rows 'Nature' and ' NATURE' both match
\* is answered from the first of them, 69.5.
ExactMatchReached ==
    /\ Called
    /\ call.journal_name = <<"n", "a", "t", "u", "r", "e", " ">>
    /\ Cardinality(ExactRows) = 2
    /\ db_file.rows[1] = <<<<"N", "a", "t", "u", "r", "e">>, "69.5">>
    /\ ret = [journal_name |-> <<"N", "a", "t", "u", "r", "e">>, impact_factor |-> "69.5", match_type |-> "exact"]

\* C4: with no exact match in a table that has rows, the result is fuzzy
\* exactly when the greatest similarity is at least the threshold, and is
\* then the first row that attains it; otherwise the result is none.
FuzzyIffThreshold ==
    Called /\ ExactRows = {} /\ Len(db_file.rows) > 0 =>
        IF RatioGeq(RowSimilarity(Min(BestRows)), call.threshold)
        THEN /\ ret # NoneRec
             /\ ret.match_type = "fuzzy"
             /\ ret.journal_name = db_file.rows[Min(BestRows)][1]
             /\ ret.impact_factor = db_file.rows[Min(BestRows)][2]
        ELSE ret = NoneRec

\* C4: a greatest similarity equal to the threshold, attained by two rows,
\* is answered with the first of them.
FuzzyBoundaryReached ==
    /\ Called
    /\ ExactRows = {}
    /\ Cardinality(BestRows) = 2
    /\ RatioEq(RowSimilarity(Min(BestRows)), call.threshold)
    /\ ret # NoneRec
    /\ ret.match_type = "fuzzy"
    /\ ret.impact_factor = db_file.rows[1][2]
    /\ db_file.rows[1][2] # db_file.rows[2][2]

\* C5: calculate_similarity(a, b) equals calculate_similarity(b, a), and
\* calculate_similarity(x, x) is 1.0 for a non-empty x.
SimilaritySymmetric ==
    pc = "return" =>
        /\ RatioEq(ratio, calculate_similarity(str2, str1))
        /\ str1 = str2 /\ str1 # <<>> => RatioEq(ratio, <<1, 1>>)

\* C6: a subject that contains a comma is decided by the comma rule alone
\* (the cleaned text before the first comma, or none), and a subject that
\* contains 'doi:' and no comma by the doi rule alone.
FirstRuleOnly ==
    pc = "return" =>
        /\ Contains(str_strip(subject), <<",">>) =>
              subject_ret = comma_rule(str_strip(subject))
        /\ ( /\ ~Contains(str_strip(subject), <<",">>)
             /\ Contains(str_lower(str_strip(subject)), <<"d", "o", "i", ":">>) ) =>
              subject_ret = doi_rule(str_strip(subject))

\* The subject of the metadata, and the name it yields.
HasSubject == SubjectKey \in DOMAIN metadata /\ metadata[SubjectKey] # <<>>
SubjectName == extract_journal_from_subject(metadata[SubjectKey])

\* C7: a non-empty subject that yields a name decides the result, whatever
\* the patterns find in the text; the patterns decide only when the subject
\* is absent, empty, or yields no name.
SubjectWins ==
    pc = "return" =>
        IF HasSubject /\ Truthy(SubjectName)
        THEN name_ret = SubjectName
        ELSE name_ret = match_patterns(text)

\* C7: the subject yields one name, a pattern finds another in the text, and
\* the subject's name is returned.
SubjectBeatsPattern ==
    /\ pc = "return"
    /\ HasSubject
    /\ Truthy(SubjectName)
    /\ Truthy(match_patterns(text))
    /\ match_patterns(text) # SubjectName
    /\ name_ret = SubjectName

\* C8: after any calls of get_impact_factor that returned, the table is the value that
\* load_journal_database returned: its rows, their order, its columns.
TableUnchanged ==
    pc = "ready" => df = load_journal_database(db_file)

\* C9: get_impact_factor raises for no candidate and no table, the table
\* without rows included.
LookupNeverRaises == pc # "raised" /\ ret # Raised

\* The number of characters at the end of s that are all in chars.
TrailingCount(s, chars) ==
    Max({k \in 0..Len(s) : \A i \in (Len(s) - k + 1)..Len(s) : s[i] \in chars})

NoiseChars == Digit \cup {",", ".", ":", "-"}

\* The subjects that reach the last rule: no comma, no 'doi:', no text
\* followed by a year.
FallbackCase(s) ==
    /\ ~Contains(s, <<",">>)
    /\ ~Contains(str_lower(s), <<"d", "o", "i", ":">>)
    /\ year_groups(s) = {}

\* s without its last n characters
DropLast(s, n) == Slice(s, 1, Len(s) - n)

\* C10 as stated: the whole trailing run of digits, ',', '.', ':', '-' and
\* whitespace is removed, and the rest is returned when longer than 3.
WholeRun(s) == DropLast(s, TrailingCount(s, NoiseChars \cup Space))

FallbackStripsWholeRun ==
    pc = "return" /\ FallbackCase(str_strip(subject)) =>
        subject_ret = IF Len(WholeRun(str_strip(subject))) > 3
                      THEN WholeRun(str_strip(subject)) ELSE NoneVal

\* C10, amended: the trailing run of digits, ',', '.', ':', '-' is removed
\* together with the whitespace right before it, and nothing more (the run
\* stops at whitespace inside it); the rest is returned when longer than 3.
LastRun(s) ==
    IF TrailingCount(s, NoiseChars) = 0 THEN s
    ELSE DropLast(DropLast(s, TrailingCount(s, NoiseChars)),
                  TrailingCount(DropLast(s, TrailingCount(s, NoiseChars)), Space))

FallbackStripsLastRun ==
    pc = "return" /\ FallbackCase(str_strip(subject)) =>
        subject_ret = IF Len(LastRun(str_strip(subject))) > 3
                      THEN LastRun(str_strip(subject)) ELSE NoneVal

\* C10: a subject whose trailing numbers are separated by whitespace keeps
\* the first of them, so the name returned ends in a digit.
FallbackKeepsDigits ==
    /\ pc = "return"
    /\ FallbackCase(str_strip(subject))
    /\ subject_ret # NoneVal
    /\ subject_ret[Len(subject_ret)] \in Digit
    /\ Len(subject_ret) < Len(str_strip(subject))

====
